---- MODULE Spec2Model ----
(***************************************************************************)
(* Model of the two engines of ticru.io:                                   *)
(*   - the `run` command of ticru-cli.py, which starts the backend and the *)
(*     frontend as multiprocessing.Process children and tears them down    *)
(*     from a signal handler;                                              *)
(*   - main() of build-system.py, the sequential build pipeline.           *)
(* The two never run in the same session, so each has its own              *)
(* specification (Spec / FairSpec for the supervisor, PipeSpec for the     *)
(* pipeline); the variables of the other engine stay idle.                 *)
(***************************************************************************)
EXTENDS Integers, Sequences, FiniteSets

(* Number of interrupts (SIGINT / SIGTERM) delivered to the supervisor in one session. *)
MaxInterrupts == 2

VARIABLES
    pc,          \* position of run()'s main flow
    status,      \* how run() ended: "none", "returned", "sysexit", "error"
    hpc,         \* position of the innermost running signal_handler frame
    depth,       \* number of signal_handler frames on the stack
    interrupts,  \* interrupts delivered so far
    proc,        \* state of each multiprocessing.Process child
    cmd,         \* state of the external command each child runs
    sig,         \* a signal is pending in the child
    missing,     \* the child's executable is not installed
    bpc,         \* position of build-system main()
    argv,        \* flags given on the command line
    args,        \* parsed command-line flags of build-system
    success,     \* main()'s `success` variable
    stepOutcome, \* outcome of each pipeline step
    ran,         \* steps executed so far, in execution order
    rc,          \* exit code of build-system (-1 while it runs)
    summary      \* the "Build Summary" has been printed

supVars == <<pc, status, hpc, depth, interrupts, proc, cmd, sig, missing>>
pipeVars == <<bpc, argv, args, success, stepOutcome, ran, rc, summary>>
vars == <<pc, status, hpc, depth, interrupts, proc, cmd, sig, missing,
          bpc, argv, args, success, stepOutcome, ran, rc, summary>>

(***************************************************************************)
(* Process supervisor: ticru-cli.py, run()                                 *)
(***************************************************************************)
Procs == {"backend", "frontend"}

Alive(i) == proc[i] \in {"started", "spawning", "running"}

Terminal(i) == proc[i] \in {"done", "failed", "killed"}

(* Exit code of the CLI process: run() returning and sys.exit(0) both give 0, *)
(* an exception that escapes run() gives 1.                                    *)
ExitCode == IF status = "error" THEN 1 ELSE 0

SupInit ==
    /\ pc = "start_backend"
    /\ status = "none"
    /\ hpc = "none"
    /\ depth = 0
    /\ interrupts = 0
    /\ proc = [i \in Procs |-> "initial"]
    /\ cmd = [i \in Procs |-> "none"]
    /\ sig = [i \in Procs |-> FALSE]
    /\ missing \in [Procs -> BOOLEAN]

SupIdle ==
    /\ pc = "exited"
    /\ status = "none"
    /\ hpc = "none"
    /\ depth = 0
    /\ interrupts = 0
    /\ proc = [i \in Procs |-> "initial"]
    /\ cmd = [i \in Procs |-> "none"]
    /\ sig = [i \in Procs |-> FALSE]
    /\ missing = [i \in Procs |-> FALSE]

(* An exception (SystemExit or an error) leaves every handler frame and the   *)
(* main flow of run(); the interpreter then runs its exit handlers.  Raised   *)
(* while the exit handlers already run, it ends them.                          *)
Raise(kind) ==
    /\ hpc' = "none"
    /\ depth' = 0
    /\ IF pc = "atexit"
         THEN pc' = "exited" /\ status' = status
         ELSE pc' = "atexit" /\ status' = kind

(* Process.start(): fork the child; os.fork may fail with OSError. *)
Start(i, next) ==
    /\ hpc = "none"
    /\ \E forked \in BOOLEAN :
         IF forked
           THEN /\ proc' = [proc EXCEPT ![i] = "started"]
                /\ pc' = next
                /\ UNCHANGED <<status, hpc, depth>>
           ELSE /\ Raise("error")
                /\ UNCHANGED proc
    /\ UNCHANGED <<interrupts, cmd, sig, missing, pipeVars>>

StartBackend ==
    /\ pc = "start_backend"
    /\ Start("backend", "start_frontend")

StartFrontend ==
    /\ pc = "start_frontend"
    /\ Start("frontend", "join_backend")

JoinBackend_ShutdownOnFailure ==
    /\ pc = "join_backend"
    /\ hpc = "none"
    /\ ~Alive("backend")
    /\ pc' = "join_frontend"
    /\ sig' = [sig EXCEPT !["frontend"] =
                 sig["frontend"] \/ (proc["backend"] = "failed" /\ Alive("frontend"))]
    /\ UNCHANGED <<status, hpc, depth, interrupts, proc, cmd, missing, pipeVars>>

(* backend_process.join(): no timeout, returns once the child has exited. *)
JoinBackend ==
    /\ pc = "join_backend"
    /\ hpc = "none"
    /\ ~Alive("backend")
    /\ pc' = "join_frontend"
    /\ UNCHANGED <<status, hpc, depth, interrupts, proc, cmd, sig, missing, pipeVars>>

JoinFrontend_NoWait ==
    /\ pc = "join_frontend"
    /\ hpc = "none"
    /\ pc' = "atexit"
    /\ status' = "returned"
    /\ UNCHANGED <<hpc, depth, interrupts, proc, cmd, sig, missing, pipeVars>>

(* frontend_process.join(): no timeout; after it run() returns. *)
JoinFrontend ==
    /\ pc = "join_frontend"
    /\ hpc = "none"
    /\ ~Alive("frontend")
    /\ pc' = "atexit"
    /\ status' = "returned"
    /\ UNCHANGED <<hpc, depth, interrupts, proc, cmd, sig, missing, pipeVars>>

(* Interpreter exit: multiprocessing joins every child that is still alive, *)
(* without a timeout, before the CLI process ends.                           *)
AtExit ==
    /\ pc = "atexit"
    /\ hpc = "none"
    /\ \A i \in Procs : ~Alive(i)
    /\ pc' = "exited"
    /\ UNCHANGED <<status, hpc, depth, interrupts, proc, cmd, sig, missing, pipeVars>>

(* SIGINT or SIGTERM reaches the CLI process: Python runs signal_handler on  *)
(* top of whatever the main thread is doing, another signal_handler frame    *)
(* included.  Ctrl+C in a terminal signals the whole foreground process      *)
(* group, so the children may receive the signal as well.                    *)
Interrupt ==
    /\ pc # "exited"
    /\ interrupts < MaxInterrupts
    /\ interrupts' = interrupts + 1
    /\ depth' = depth + 1
    /\ hpc' = "term_backend"
    /\ \E group \in BOOLEAN :
         sig' = [i \in Procs |-> sig[i] \/ (group /\ Alive(i))]
    /\ UNCHANGED <<pc, status, proc, cmd, missing, pipeVars>>

(* Process.terminate(): AttributeError when the process was never started    *)
(* (its _popen is None), else SIGTERM to the child.                          *)
Terminate(i, next) ==
    IF proc[i] = "initial"
      THEN /\ Raise("error")
           /\ UNCHANGED sig
      ELSE /\ sig' = [sig EXCEPT ![i] = sig[i] \/ Alive(i)]
           /\ hpc' = next
           /\ UNCHANGED <<pc, status, depth>>

HandlerTerminateBackend ==
    /\ hpc = "term_backend"
    /\ Terminate("backend", "term_frontend")
    /\ UNCHANGED <<interrupts, proc, cmd, missing, pipeVars>>

HandlerTerminateFrontend ==
    /\ hpc = "term_frontend"
    /\ Terminate("frontend", "join_backend")
    /\ UNCHANGED <<interrupts, proc, cmd, missing, pipeVars>>

(* Process.join(timeout=5): returns when the child has exited or when the    *)
(* five seconds are over, whichever comes first.                              *)
JoinTimeout(i, next) ==
    /\ \E expired \in BOOLEAN : expired \/ ~Alive(i)
    /\ hpc' = next
    /\ UNCHANGED <<pc, status, depth, interrupts, proc, cmd, sig, missing, pipeVars>>

HandlerJoinBackend ==
    /\ hpc = "join_backend"
    /\ JoinTimeout("backend", "join_frontend")

HandlerJoinFrontend ==
    /\ hpc = "join_frontend"
    /\ JoinTimeout("frontend", "exit")

(* click.echo("Servers stopped"); sys.exit(0) *)
HandlerExit ==
    /\ hpc = "exit"
    /\ Raise("sysexit")
    /\ UNCHANGED <<interrupts, proc, cmd, sig, missing, pipeVars>>

(* The child calls subprocess.run: FileNotFoundError when the executable is  *)
(* missing, else the external command is forked.                              *)
ChildSpawn(i) ==
    /\ proc[i] = "started"
    /\ IF missing[i]
         THEN /\ proc' = [proc EXCEPT ![i] = "failed"]
              /\ sig' = [sig EXCEPT ![i] = FALSE]
              /\ UNCHANGED cmd
         ELSE /\ proc' = [proc EXCEPT ![i] = "spawning"]
              /\ cmd' = [cmd EXCEPT ![i] = "running"]
              /\ UNCHANGED sig
    /\ UNCHANGED <<pc, status, hpc, depth, interrupts, missing, pipeVars>>

(* subprocess.Popen is constructed; subprocess.run now waits for the command. *)
ChildWait(i) ==
    /\ proc[i] = "spawning"
    /\ proc' = [proc EXCEPT ![i] = "running"]
    /\ UNCHANGED <<pc, status, hpc, depth, interrupts, cmd, sig, missing, pipeVars>>

(* The external command (uvicorn, npm) ends on its own. *)
CmdExit(i) ==
    /\ cmd[i] = "running"
    /\ cmd' = [cmd EXCEPT ![i] = "exited"]
    /\ UNCHANGED <<pc, status, hpc, depth, interrupts, proc, sig, missing, pipeVars>>

(* subprocess.run returns whatever the command's exit code; the target       *)
(* returns and the child exits with code 0.                                   *)
ChildReturn(i) ==
    /\ proc[i] = "running"
    /\ cmd[i] = "exited"
    /\ proc' = [proc EXCEPT ![i] = "done"]
    /\ sig' = [sig EXCEPT ![i] = FALSE]
    /\ UNCHANGED <<pc, status, hpc, depth, interrupts, cmd, missing, pipeVars>>

ChildSignal_Orphan(i) ==
    /\ sig[i]
    /\ Alive(i)
    /\ proc' = [proc EXCEPT ![i] = "killed"]
    /\ sig' = [j \in Procs |->
                 IF j = i THEN FALSE
                 ELSE sig[j] \/ (i = "frontend" /\ Alive(j))]
    /\ UNCHANGED <<pc, status, hpc, depth, interrupts, cmd, missing, pipeVars>>

(* A signal reaches a child.  The child was forked after signal.signal(), so *)
(* it runs the same signal_handler on its copy of the two Process objects:   *)
(* in the backend child backend_process was never started and terminate()    *)
(* raises at once; in the frontend child backend_process is the started      *)
(* backend, which gets SIGTERM, and frontend_process.terminate() raises.     *)
(* The exception ends subprocess.run, which kills the command it waits for,  *)
(* and the child exits with code 1.  Raised while Popen is being constructed *)
(* the command is not killed.                                                 *)
ChildSignal(i) ==
    /\ sig[i]
    /\ Alive(i)
    /\ proc' = [proc EXCEPT ![i] = "killed"]
    /\ sig' = [j \in Procs |->
                 IF j = i THEN FALSE
                 ELSE sig[j] \/ (i = "frontend" /\ Alive(j))]
    /\ cmd' = [cmd EXCEPT ![i] =
                 IF proc[i] = "running" /\ cmd[i] = "running" THEN "killed" ELSE cmd[i]]
    /\ UNCHANGED <<pc, status, hpc, depth, interrupts, missing, pipeVars>>

SupervisorStep ==
    \/ StartBackend
    \/ StartFrontend
    \/ JoinBackend
    \/ JoinFrontend
    \/ AtExit
    \/ HandlerTerminateBackend
    \/ HandlerTerminateFrontend
    \/ HandlerJoinBackend
    \/ HandlerJoinFrontend
    \/ HandlerExit

SupNext ==
    \/ SupervisorStep
    \/ Interrupt
    \/ \E i \in Procs : ChildSpawn(i)
    \/ \E i \in Procs : ChildWait(i)
    \/ \E i \in Procs : CmdExit(i)
    \/ \E i \in Procs : ChildReturn(i)
    \/ \E i \in Procs : ChildSignal(i)

(***************************************************************************)
(* Properties of the supervisor                                            *)
(***************************************************************************)

InterruptedWhileBothRun ==
    /\ interrupts = 1
    /\ hpc = "term_backend"
    /\ \A i \in Procs : proc[i] = "running" /\ cmd[i] = "running"

(* Every managed process and every external command has ended and the CLI  *)
(* has exited with code 0.                                                  *)
CleanShutdown ==
    /\ pc = "exited"
    /\ ExitCode = 0
    /\ \A i \in Procs : ~Alive(i) /\ cmd[i] \in {"exited", "killed"}

C3_ShutdownLeavesNoneRunning ==
    hpc = "exit" => \A i \in Procs : ~Alive(i)

(* C4: the shutdown sequence is never entered while another one is in      *)
(* progress: at most one signal_handler frame exists at any time.          *)
C4_SingleShutdownSequence ==
    depth <= 1

(* C5: when the session has ended, the exit code is non-zero if some       *)
(* managed process failed to start, and 0 if the session was stopped by    *)
(* request with no such failure.                                           *)
C5_ExitCodeDistinguishesOutcomes ==
    pc = "exited" =>
        /\ (\E i \in Procs : proc[i] = "failed") => ExitCode # 0
        /\ (status = "sysexit" /\ \A i \in Procs : proc[i] # "failed") => ExitCode = 0

C12_HandlerNeverRaises ==
    [][(hpc \in {"term_backend", "term_frontend"}) => (hpc' # "none")]_vars

(***************************************************************************)
(* Build pipeline: build-system.py, main()                                 *)
(***************************************************************************)
Flags == {"clean", "install", "lint", "type_check", "build", "test", "all"}

Steps == <<"clean", "npm_install", "pip_install", "lint", "type_check",
           "build", "build_info", "test">>

StepSet == {Steps[k] : k \in 1..Len(Steps)}

Index(s) == CHOOSE k \in 1..Len(Steps) : Steps[k] = s

PipeIdle ==
    /\ bpc = "done"
    /\ argv = [f \in Flags |-> FALSE]
    /\ args = [f \in Flags |-> FALSE]
    /\ success = TRUE
    /\ stepOutcome = [s \in StepSet |-> "NotRun"]
    /\ ran = <<>>
    /\ rc = -1
    /\ summary = FALSE

PipeInit ==
    /\ SupIdle
    /\ bpc = "parse"
    /\ argv \in [Flags -> BOOLEAN]
    /\ args = argv
    /\ success = TRUE
    /\ stepOutcome = [s \in StepSet |-> "NotRun"]
    /\ ran = <<>>
    /\ rc = -1
    /\ summary = FALSE

(* The flag that selects each step in main(). *)
Selected(s) ==
    \/ args["all"]
    \/ args[CASE s \in {"npm_install", "pip_install"} -> "install"
              [] s \in {"build", "build_info"} -> "build"
              [] OTHER -> s]

NextPc(s) == IF Index(s) = Len(Steps) THEN "summary" ELSE Steps[Index(s) + 1]

(* `success = success and step()`: the step is not called once success is False. *)
Called(s) == Selected(s) /\ success

Skip(s) ==
    /\ bpc' = NextPc(s)
    /\ UNCHANGED <<argv, args, success, stepOutcome, ran, rc, summary>>

(* The step returned True. *)
Passed(s) ==
    /\ bpc' = NextPc(s)
    /\ ran' = Append(ran, s)
    /\ stepOutcome' = [stepOutcome EXCEPT ![s] = "Success"]
    /\ UNCHANGED <<argv, args, success, rc, summary>>

(* The step returned False: success becomes False. *)
ReturnedFalse(s) ==
    /\ bpc' = NextPc(s)
    /\ ran' = Append(ran, s)
    /\ stepOutcome' = [stepOutcome EXCEPT ![s] = "Failure"]
    /\ success' = FALSE
    /\ UNCHANGED <<argv, args, rc, summary>>

(* run_command with check=True on a failing command: sys.exit(1) at once. *)
run_command_exit(s) ==
    /\ bpc' = "done"
    /\ rc' = 1
    /\ ran' = Append(ran, s)
    /\ stepOutcome' = [stepOutcome EXCEPT ![s] = "Failure"]
    /\ UNCHANGED <<argv, args, success, summary>>

CheckedStep_Continue(s) ==
    /\ bpc = s
    /\ IF Called(s)
         THEN \E ok \in BOOLEAN :
                IF ok THEN Passed(s)
                ELSE /\ bpc' = NextPc(s)
                     /\ ran' = Append(ran, s)
                     /\ stepOutcome' = [stepOutcome EXCEPT ![s] = "Failure"]
                     /\ UNCHANGED <<argv, args, success, rc, summary>>
         ELSE Skip(s)
    /\ UNCHANGED supVars

(* A step whose command runs with check=True. *)
CheckedStep(s) ==
    /\ bpc = s
    /\ IF Called(s)
         THEN \E ok \in BOOLEAN : IF ok THEN Passed(s) ELSE run_command_exit(s)
         ELSE Skip(s)
    /\ UNCHANGED supVars

UncheckedStep_Optional(s) ==
    /\ bpc = s
    /\ IF Called(s)
         THEN \E ok \in BOOLEAN :
                IF ok THEN Passed(s)
                ELSE /\ bpc' = NextPc(s)
                     /\ ran' = Append(ran, s)
                     /\ stepOutcome' = [stepOutcome EXCEPT ![s] = "Failure"]
                     /\ UNCHANGED <<argv, args, success, rc, summary>>
         ELSE Skip(s)
    /\ UNCHANGED supVars

(* A step whose command runs with check=False and that returns False when   *)
(* the command fails.                                                        *)
UncheckedStep(s) ==
    /\ bpc = s
    /\ IF Called(s)
         THEN \E ok \in BOOLEAN : IF ok THEN Passed(s) ELSE ReturnedFalse(s)
         ELSE Skip(s)
    /\ UNCHANGED supVars

(* A step that always returns True. *)
AlwaysStep(s) ==
    /\ bpc = s
    /\ IF Called(s) THEN Passed(s) ELSE Skip(s)
    /\ UNCHANGED supVars

ParseArgs_KeepEmpty ==
    /\ bpc = "parse"
    /\ bpc' = "deps"
    /\ UNCHANGED <<argv, args, success, stepOutcome, ran, rc, summary, supVars>>

(* args = parser.parse_args(); with no flag at all, args.all = True. *)
ParseArgs ==
    /\ bpc = "parse"
    /\ bpc' = "deps"
    /\ argv' = argv
    /\ args' = IF \A f \in Flags : ~args[f]
                 THEN [args EXCEPT !["all"] = TRUE]
                 ELSE args
    /\ UNCHANGED <<success, stepOutcome, ran, rc, summary, supVars>>

(* check_dependencies(): a missing tool ends the process with code 1 before *)
(* any step.                                                                 *)
check_dependencies ==
    /\ bpc = "deps"
    /\ \E all_ok \in BOOLEAN :
         IF all_ok
           THEN bpc' = Steps[1] /\ rc' = rc
           ELSE bpc' = "done" /\ rc' = 1
    /\ UNCHANGED <<argv, args, success, stepOutcome, ran, summary, supVars>>

(* rm -rf of the existing artifact directories, check=True. *)
clean_build == CheckedStep("clean")

(* npm install, check=True. *)
install_npm_dependencies == CheckedStep("npm_install")

(* pip install -r requirements.txt, check=True; True when the file is absent. *)
install_python_dependencies == CheckedStep("pip_install")

(* npm run lint, check=False; True when package.json is absent. *)
lint_code == UncheckedStep("lint")

(* npm run type-check, check=False; True when tsconfig.json is absent. *)
type_check == UncheckedStep("type_check")

(* npm run build, check=True. *)
build_frontend == CheckedStep("build")

(* The git commands run with check=False and their results are not tested. *)
generate_build_info == AlwaysStep("build_info")

test_code == AlwaysStep("test")

(* Build Summary: duration, verdict, sys.exit(0) or sys.exit(1). *)
Summary ==
    /\ bpc = "summary"
    /\ summary' = TRUE
    /\ rc' = IF success THEN 0 ELSE 1
    /\ bpc' = "done"
    /\ UNCHANGED <<argv, args, success, stepOutcome, ran, supVars>>

PipeNext ==
    \/ ParseArgs
    \/ check_dependencies
    \/ clean_build
    \/ install_npm_dependencies
    \/ install_python_dependencies
    \/ lint_code
    \/ type_check
    \/ build_frontend
    \/ generate_build_info
    \/ test_code
    \/ Summary

PipeSpec == PipeInit /\ [][PipeNext]_vars

(***************************************************************************)
(* Properties of the pipeline                                              *)
(***************************************************************************)
NoFlags == \A f \in Flags : ~argv[f]

Failed(s) == stepOutcome[s] = "Failure"

(* C7: the steps run one at a time in the declared order; once a step has  *)
(* failed no later step is started; and a run in which a step failed ends  *)
(* with the failure result (exit code 1).                                  *)
C7_DeclaredOrderFailFast ==
    /\ \A k \in 1..(Len(ran) - 1) : Index(ran[k]) < Index(ran[k + 1])
    /\ \A s \in StepSet : stepOutcome[s] # "NotRun" <=> \E k \in 1..Len(ran) : ran[k] = s
    /\ \A s, u \in StepSet :
         (Failed(s) /\ Index(s) < Index(u)) => stepOutcome[u] = "NotRun"
    /\ (bpc = "done" /\ \E s \in StepSet : Failed(s)) => rc = 1

(* [A pass, B fail, C pass]: clean succeeded, npm install failed, nothing  *)
(* after it was run, and the build ended with code 1.                      *)
C7_Witness ==
    /\ bpc = "done"
    /\ args["all"]
    /\ ran = <<"clean", "npm_install">>
    /\ stepOutcome["clean"] = "Success"
    /\ stepOutcome["npm_install"] = "Failure"
    /\ \A s \in StepSet \ {"clean", "npm_install"} : stepOutcome[s] = "NotRun"
    /\ rc = 1

(* C8 (as amended): a failure of a step whose command runs with            *)
(* check=False (lint, type-check) is recorded and does not end the process *)
(* on the spot, but it does stop the pipeline: the success flag becomes    *)
(* false, no later step is run, the summary is reached and the build ends  *)
(* with code 1.                                                            *)
C8_UncheckedFailureStopsPipeline ==
    \A s \in {"lint", "type_check"} :
        Failed(s) =>
            /\ ~success
            /\ \A u \in StepSet : Index(s) < Index(u) => stepOutcome[u] = "NotRun"
            /\ bpc = "done" => (summary /\ rc = 1)

(* [A pass, B fail, C]: with --all, every step up to lint passed, lint     *)
(* failed, build was never run and the build ended with code 1.            *)
C8_Witness ==
    /\ bpc = "done"
    /\ args["all"]
    /\ ran = <<"clean", "npm_install", "pip_install", "lint">>
    /\ stepOutcome["clean"] = "Success"
    /\ stepOutcome["lint"] = "Failure"
    /\ stepOutcome["build"] = "NotRun"
    /\ summary
    /\ rc = 1

(* C8 (as stated): when only lint or type-check failed, every selected     *)
(* step has been executed and the overall result is success.               *)
C8_OptionalFailureDoesNotStop ==
    (bpc = "done" /\ \E s \in {"lint", "type_check"} : Failed(s)) =>
        /\ \A u \in StepSet : Selected(u) => stepOutcome[u] # "NotRun"
        /\ rc = 0

(* C9: when a build that got to run its steps has ended, the success flag  *)
(* is true iff no step failed, and the exit code is 0 iff the flag is      *)
(* true, 1 otherwise.                                                      *)
C9_FlagMatchesStepsAndExitCode ==
    (bpc = "done" /\ ran # <<>>) =>
        /\ success <=> \A s \in StepSet : ~Failed(s)
        /\ rc = 0 <=> success
        /\ rc = 1 <=> ~success

(* C10 (as amended): an invocation that selects no step is run as --all:   *)
(* the steps are executed in the declared order, and the run is successful *)
(* only when all eight of them were executed.                              *)
C10_NoSelectionRunsEverything ==
    NoFlags =>
        /\ bpc # "parse" => args["all"]
        /\ bpc \notin {"parse", "deps"} => \A s \in StepSet : Selected(s)
        /\ (bpc = "done" /\ rc = 0) => ran = Steps

(* No flag on the command line, all eight steps executed, exit code 0.     *)
C10_Witness ==
    /\ NoFlags
    /\ bpc = "done"
    /\ ran = Steps
    /\ \A s \in StepSet : stepOutcome[s] = "Success"
    /\ rc = 0

(* C10 (as stated): an invocation that selects no step executes zero steps *)
(* and ends successfully.                                                  *)
C10_EmptySelectionRunsNothing ==
    (NoFlags /\ bpc = "done") => (ran = <<>> /\ rc = 0)

(* C11: a build that got to run its steps never ends without the final    *)
(* summary: whenever the process has exited, the summary has been printed. *)
C11_EveryRunReachesSummary ==
    (bpc = "done" /\ ran # <<>>) => summary

Init == SupInit /\ PipeIdle

Next == SupNext

Spec == Init /\ [][Next]_vars

(* The supervisor and the two children are scheduled processes: each takes  *)
(* its next step when it can.  Nothing forces an interrupt to arrive or an  *)
(* external command (a server) to end.                                      *)
FairSpec ==
    /\ Init
    /\ [][Next]_vars
    /\ WF_vars(SupervisorStep)
    /\ \A i \in Procs :
         /\ WF_vars(ChildSpawn(i))
         /\ WF_vars(ChildWait(i))
         /\ WF_vars(ChildReturn(i))
         /\ WF_vars(ChildSignal(i))
====
